---- MODULE Spec2Model ----
(***************************************************************************)
(* The session-state and dispatch layer of the CapCut MCP server:          *)
(*   - CapCutMCPServer (mcp_server.py): the tool catalog, the draft        *)
(*     registry `drafts` and call_tool with its nine handlers;             *)
(*   - the stdio front end handle_call_tool (mcp_server.py __main__);      *)
(*   - the SSE front end call_tool (mcp_server_sse.py), whose async        *)
(*     handler calls the synchronous call_tool on the event-loop thread,   *)
(*     with its list_tools handler and the opening and closing of client   *)
(*     streams by handle_sse.                                              *)
(* The Composer functions (get_or_create_draft, add_*_impl, ...) are       *)
(* external: a Composer call either returns an opaque value or raises.     *)
(* The protocol library that receives the requests of a channel and enters *)
(* the handlers is external too: requests wait in `inbox` and are handed   *)
(* to the handlers in the order received (NextRequest).                    *)
(*                                                                         *)
(* Representation of Python values:                                        *)
(*   dict            a function whose DOMAIN is the set of keys present    *)
(*   None / a value  <<>> / <<v>>  (an optional)                           *)
(*   3.0, 0 ...      integers (whole seconds)                              *)
(*   str(uuid4())    "uuid-1", "uuid-2", ...                               *)
(*   JSON text       the dictionary it serialises                          *)
(*   text_styles     [kind |-> "list", items |-> <<...>>] for a list and   *)
(*                   [kind |-> "int", items |-> <<>>] for a number; a list *)
(*                   item is "mapping" (a dict TextStyleRange accepts),    *)
(*                   "rejected" (a dict TextStyleRange raises on) or "int" *)
(***************************************************************************)
EXTENDS Integers, Sequences, FiniteSets, TLC

\* ------------------------------------------------------------- bounds
\* how many identifiers uuid4 hands out in a run
MaxDrafts == 2
\* how many clients there are to open an SSE stream
NClients == 2
\* caller-supplied start/end values range over 0..MaxTime
MaxTime == 1
\* how many requests the server holds at once, over all channels: waiting
\* for a handler, inside the Composer, or answered and not yet written
MaxInFlight == 2

VARIABLES
    CAPCUT_AVAILABLE, \* mcp_server.py: set once by the import block
    transport,        \* which front end this process runs: "stdio" or "sse"
    drafts,           \* CapCutMCPServer.drafts: draft_id -> {folder,width,height}
    issued,           \* the identifiers uuid4 has produced so far
    streams,          \* the clients whose channel to this process is open
    composed,         \* the Composer's side: the draft folders it has added an
                      \* asset to
    inbox,            \* per client: the requests its channel has delivered
                      \* and no handler has been entered for, oldest first
    running,          \* per client: the call that is inside the Composer, or None
    out               \* the response the last handler returned (with the call
                      \* it answers); None once the transport has written it
                      \* or a later call has entered the Composer

vars == <<CAPCUT_AVAILABLE, transport, drafts, issued, streams, composed,
          inbox, running, out>>

\* --------------------------------------------------- Python values
None == <<>>
Some(v) == <<v>>

\* dict.get(k): the value or None
Get(d, k) == IF k \in DOMAIN d THEN Some(d[k]) ELSE None

\* dict.get(k, default)
GetOr(d, k, default) == IF k \in DOMAIN d THEN d[k] ELSE default

\* `not x` for an optional string: None and "" are falsy
Falsy(x) == x = None \/ x = Some("")

\* the dict holding the keys of the record f whose optional is present
MkDict(f) == [k \in {j \in DOMAIN f : f[j] /= None} |-> f[k][1]]

EmptyDict == [k \in {} |-> 0]

\* str(KeyError(k)) is the repr of the key
KeyErrorStr(k) == "'" \o k \o "'"

\* what a handler does up to the point where it stops or calls out
Return(v) == [kind |-> "return", value |-> v]
Raise(msg) == [kind |-> "raise", msg |-> msg]
Invoke(fn, kwargs) == [kind |-> "invoke", fn |-> fn, kwargs |-> kwargs]

\* ------------------------------------------------------ tool catalog
TOOLS ==
    << [name |-> "create_draft", required |-> {}],
       [name |-> "add_video",    required |-> {"video_url"}],
       [name |-> "add_audio",    required |-> {"audio_url"}],
       [name |-> "add_image",    required |-> {"image_url"}],
       [name |-> "add_text",     required |-> {"text", "start", "end"}],
       [name |-> "add_subtitle", required |-> {"srt_path"}],
       [name |-> "add_effect",   required |-> {"effect_type"}],
       [name |-> "add_sticker",  required |-> {"sticker_url"}],
       [name |-> "save_draft",   required |-> {"draft_id"}] >>

get_tools == TOOLS

ToolNames == {TOOLS[i].name : i \in DOMAIN TOOLS}

Required(name) ==
    LET i == CHOOSE j \in DOMAIN TOOLS : TOOLS[j].name = name IN TOOLS[i].required

\* ---------------------------------------------------------- Composer
\* The Composer is external: the values a call may return and the messages
\* of the faults it may raise.
ComposerFaults == {"fetch failed"}

ComposerResults(fn, kwargs) ==
    IF fn = "get_or_create_draft"
    THEN {"folder-" \o kwargs.draft_id}
    ELSE {"ok"}

\* the folders that hold an asset once the Composer function fn has
\* returned: an add function leaves an asset in the folder it was given
ComposerFolders(fn, kwargs) ==
    IF fn \in {"get_or_create_draft", "save_draft_impl"} THEN composed
    ELSE composed \cup {kwargs.draft_folder}

\* ----------------------------------------------------------- uuid4
UUIDs == {"uuid-" \o ToString(i) : i \in 1..MaxDrafts}

\* faulty variant: an identifier source that may repeat a value
uuid4_reused == UUIDs

\* the values str(uuid.uuid4()) may yield next: uuid4 does not repeat a value
uuid4 == UUIDs \ issued

\* ----------------------------------------------------------- handlers
InvalidDraftIdEnvelope == [success |-> FALSE, error |-> "Invalid draft_id"]

\* faulty variant: the guard without its registry lookup
InvalidDraftId_truthy_only(draft_id) == Falsy(draft_id)

\* the guard `not draft_id or draft_id not in self.drafts`
InvalidDraftId(draft_id) == Falsy(draft_id) \/ draft_id[1] \notin DOMAIN drafts

\* Every add_* handler and _save_draft starts the same way:
\*     draft_id = args.get("draft_id")
\*     if not draft_id or draft_id not in self.drafts: return {...}
\*     draft_folder = self.drafts[draft_id]["folder"]
\* then evaluates the keyword arguments left to right (args[k] raises
\* KeyError(k) when k is missing) and calls the Composer function.
\* Resolve gives the handler's early exit, or None when the folder is known.
Resolve(args) ==
    LET draft_id == Get(args, "draft_id") IN
    IF InvalidDraftId(draft_id) THEN Some(Return(InvalidDraftIdEnvelope))
    ELSE IF draft_id[1] \notin DOMAIN drafts THEN Some(Raise(KeyErrorStr(draft_id[1])))
    ELSE None

\* faulty variant: the folder rebuilt from the id, not read from the entry
Folder_from_id(args) == "drafts/" \o args["draft_id"]

Folder(args) == drafts[args["draft_id"]].folder

\* the first key of ks (in order) that args lacks, as an optional
FirstMissing(args, ks) ==
    LET miss == {i \in DOMAIN ks : ks[i] \notin DOMAIN args} IN
    IF miss = {} THEN None
    ELSE Some(ks[CHOOSE i \in miss : \A j \in miss : i <= j])

_create_draft(args, new_uuid) ==
    LET width == GetOr(args, "width", 1080)
        height == GetOr(args, "height", 1920)
        draft_id == new_uuid
    IN Invoke("get_or_create_draft",
              [draft_id |-> draft_id, width |-> width, height |-> height])

\* faulty variant: an omitted size read from the draft's registry entry
_add_video_draft_size(args) ==
    IF Resolve(args) /= None THEN Resolve(args)[1]
    ELSE IF "video_url" \notin DOMAIN args THEN Raise(KeyErrorStr("video_url"))
    ELSE Invoke("add_video_track",
                [draft_folder |-> Folder(args),
                 video_url |-> args["video_url"],
                 start |-> GetOr(args, "start", 0),
                 end |-> Get(args, "end"),
                 width |-> GetOr(args, "width", drafts[args["draft_id"]].width),
                 height |-> GetOr(args, "height", drafts[args["draft_id"]].height)])

_add_video(args) ==
    IF Resolve(args) /= None THEN Resolve(args)[1]
    ELSE IF "video_url" \notin DOMAIN args THEN Raise(KeyErrorStr("video_url"))
    ELSE Invoke("add_video_track",
                [draft_folder |-> Folder(args),
                 video_url |-> args["video_url"],
                 start |-> GetOr(args, "start", 0),
                 end |-> Get(args, "end"),
                 width |-> GetOr(args, "width", 1080),
                 height |-> GetOr(args, "height", 1920)])

\* faulty variant: end given the default length and a duration derived
_add_audio_with_duration(args) ==
    IF Resolve(args) /= None THEN Resolve(args)[1]
    ELSE IF "audio_url" \notin DOMAIN args THEN Raise(KeyErrorStr("audio_url"))
    ELSE Invoke("add_audio_track",
                [draft_folder |-> Folder(args),
                 audio_url |-> args["audio_url"],
                 start |-> GetOr(args, "start", 0),
                 end |-> Some(GetOr(args, "end", 3)),
                 duration |-> GetOr(args, "end", 3) - GetOr(args, "start", 0),
                 width |-> GetOr(args, "width", 1080),
                 height |-> GetOr(args, "height", 1920)])

_add_audio(args) ==
    IF Resolve(args) /= None THEN Resolve(args)[1]
    ELSE IF "audio_url" \notin DOMAIN args THEN Raise(KeyErrorStr("audio_url"))
    ELSE Invoke("add_audio_track",
                [draft_folder |-> Folder(args),
                 audio_url |-> args["audio_url"],
                 start |-> GetOr(args, "start", 0),
                 end |-> Get(args, "end"),
                 width |-> GetOr(args, "width", 1080),
                 height |-> GetOr(args, "height", 1920)])

\* faulty variant: a non-positive duration replaced by the default length
_add_image_clamped(args) ==
    IF Resolve(args) /= None THEN Resolve(args)[1]
    ELSE IF "image_url" \notin DOMAIN args THEN Raise(KeyErrorStr("image_url"))
    ELSE LET d == GetOr(args, "end", 3) - GetOr(args, "start", 0) IN
         Invoke("add_image_impl",
                [draft_folder |-> Folder(args),
                 image_url |-> args["image_url"],
                 start |-> GetOr(args, "start", 0),
                 duration |-> IF d > 0 THEN d ELSE 3,
                 width |-> GetOr(args, "width", 1080),
                 height |-> GetOr(args, "height", 1920)])

_add_image(args) ==
    IF Resolve(args) /= None THEN Resolve(args)[1]
    ELSE IF "image_url" \notin DOMAIN args THEN Raise(KeyErrorStr("image_url"))
    ELSE Invoke("add_image_impl",
                [draft_folder |-> Folder(args),
                 image_url |-> args["image_url"],
                 start |-> GetOr(args, "start", 0),
                 duration |-> GetOr(args, "end", 3) - GetOr(args, "start", 0),
                 width |-> GetOr(args, "width", 1080),
                 height |-> GetOr(args, "height", 1920)])

\* str(TypeError) of `for style in 5`
NotIterableStr == "'int' object is not iterable"

\* str(TypeError) of `TextStyleRange(**1)`
NotAMappingStr ==
    "pyJianYingDraft.text_segment.TextStyleRange() argument after ** must be a mapping, not int"

\* The constructor of the style class is external: it returns a style
\* object for the keywords it accepts and raises on the others.
TextStyleRange(style) ==
    IF style = "mapping" THEN Return([style |-> style])
    ELSE Raise("TextStyleRange fault")

\* text_styles = []
\* if "text_styles" in args:
\*     for style in args["text_styles"]:
\*         text_styles.append(TextStyleRange(**style))
\* the list built, or the exception of the first item that raises
_text_styles(args) ==
    IF "text_styles" \notin DOMAIN args THEN Return(<<>>)
    ELSE LET v == args["text_styles"]
             built == [i \in DOMAIN v.items |->
                         IF v.items[i] = "int" THEN Raise(NotAMappingStr)
                         ELSE TextStyleRange(v.items[i])]
             bad == {i \in DOMAIN built : built[i].kind = "raise"}
         IN IF v.kind /= "list" THEN Raise(NotIterableStr)
            ELSE IF bad /= {}
            THEN built[CHOOSE i \in bad : \A j \in bad : i <= j]
            ELSE Return([i \in DOMAIN built |-> built[i].value])

_add_text(args) ==
    IF Resolve(args) /= None THEN Resolve(args)[1]
    ELSE IF _text_styles(args).kind = "raise" THEN _text_styles(args)
    ELSE IF FirstMissing(args, <<"text", "start", "end">>) /= None
         THEN Raise(KeyErrorStr(FirstMissing(args, <<"text", "start", "end">>)[1]))
    ELSE Invoke("add_text_impl",
                [draft_folder |-> Folder(args),
                 text |-> args["text"],
                 start |-> args["start"],
                 duration |-> args["end"] - args["start"],
                 width |-> GetOr(args, "width", 1080),
                 height |-> GetOr(args, "height", 1920),
                 text_styles |-> IF _text_styles(args).value = <<>> THEN None
                                 ELSE Some(_text_styles(args).value)])

_add_subtitle(args) ==
    IF Resolve(args) /= None THEN Resolve(args)[1]
    ELSE IF "srt_path" \notin DOMAIN args THEN Raise(KeyErrorStr("srt_path"))
    ELSE Invoke("add_subtitle_impl",
                [draft_folder |-> Folder(args),
                 srt_path |-> args["srt_path"],
                 width |-> GetOr(args, "width", 1080),
                 height |-> GetOr(args, "height", 1920)])

_add_effect(args) ==
    IF Resolve(args) /= None THEN Resolve(args)[1]
    ELSE IF "effect_type" \notin DOMAIN args THEN Raise(KeyErrorStr("effect_type"))
    ELSE Invoke("add_effect_impl",
                [draft_folder |-> Folder(args),
                 effect_type |-> args["effect_type"],
                 start |-> GetOr(args, "start", 0),
                 duration |-> GetOr(args, "end", 3) - GetOr(args, "start", 0),
                 width |-> GetOr(args, "width", 1080),
                 height |-> GetOr(args, "height", 1920)])

\* faulty variant: the sticker handler calling the image entry point
_add_sticker_as_image(args) ==
    IF Resolve(args) /= None THEN Resolve(args)[1]
    ELSE IF "sticker_url" \notin DOMAIN args THEN Raise(KeyErrorStr("sticker_url"))
    ELSE Invoke("add_image_impl",
                [draft_folder |-> Folder(args),
                 sticker_url |-> args["sticker_url"],
                 start |-> GetOr(args, "start", 0),
                 duration |-> GetOr(args, "end", 3) - GetOr(args, "start", 0),
                 width |-> GetOr(args, "width", 1080),
                 height |-> GetOr(args, "height", 1920)])

_add_sticker(args) ==
    IF Resolve(args) /= None THEN Resolve(args)[1]
    ELSE IF "sticker_url" \notin DOMAIN args THEN Raise(KeyErrorStr("sticker_url"))
    ELSE Invoke("add_sticker_impl",
                [draft_folder |-> Folder(args),
                 sticker_url |-> args["sticker_url"],
                 start |-> GetOr(args, "start", 0),
                 duration |-> GetOr(args, "end", 3) - GetOr(args, "start", 0),
                 width |-> GetOr(args, "width", 1080),
                 height |-> GetOr(args, "height", 1920)])

\* faulty variant: a save refused while the draft holds no asset
_save_draft_needs_assets(args) ==
    IF Resolve(args) /= None THEN Resolve(args)[1]
    ELSE IF Folder(args) \notin composed
    THEN Return([success |-> FALSE, error |-> "Nothing to save"])
    ELSE Invoke("save_draft_impl",
                [draft_folder |-> Folder(args), draft_id |-> args["draft_id"]])

_save_draft(args) ==
    IF Resolve(args) /= None THEN Resolve(args)[1]
    ELSE Invoke("save_draft_impl",
                [draft_folder |-> Folder(args), draft_id |-> args["draft_id"]])

\* ------------------------------------------------------------ call_tool
\* the if/elif chain of call_tool
Dispatch(name, arguments, new_uuid) ==
    IF name = "create_draft" THEN _create_draft(arguments, new_uuid)
    ELSE IF name = "add_video" THEN _add_video(arguments)
    ELSE IF name = "add_audio" THEN _add_audio(arguments)
    ELSE IF name = "add_image" THEN _add_image(arguments)
    ELSE IF name = "add_text" THEN _add_text(arguments)
    ELSE IF name = "add_subtitle" THEN _add_subtitle(arguments)
    ELSE IF name = "add_effect" THEN _add_effect(arguments)
    ELSE IF name = "add_sticker" THEN _add_sticker(arguments)
    ELSE IF name = "save_draft" THEN _save_draft(arguments)
    ELSE Return([success |-> FALSE, error |-> "Unknown tool: " \o name])

\* faulty variant: no except clause
Except_uncaught(step) == step

\* faulty variant: the fault's message replaced by a generic one
Except_generic(step) ==
    IF step.kind = "raise"
    THEN Return([success |-> FALSE, error |-> "Internal error",
                 traceback |-> "Traceback (most recent call last): ..."])
    ELSE step

\* `except Exception as e:` of call_tool
Except(step) ==
    IF step.kind = "raise"
    THEN Return([success |-> FALSE, error |-> step.msg,
                 traceback |-> "Traceback (most recent call last): ..."])
    ELSE step

UnavailableEnvelope ==
    [success |-> FALSE,
     error |-> "CapCut modules not available. Please check installation."]

\* faulty variant: call_tool without the check of CAPCUT_AVAILABLE
call_tool_unguarded(name, arguments, new_uuid) ==
    Except(Dispatch(name, arguments, new_uuid))

call_tool(name, arguments, new_uuid) ==
    IF ~CAPCUT_AVAILABLE THEN Return(UnavailableEnvelope)
    ELSE Except(Dispatch(name, arguments, new_uuid))

\* faulty variant: _create_draft stores the entry, then materialises the folder
RegistryAtComposerEntry_store_first(step) ==
    IF step.fn = "get_or_create_draft"
    THEN [k \in DOMAIN drafts \cup {step.kwargs.draft_id} |->
            IF k = step.kwargs.draft_id
            THEN [folder |-> "", width |-> step.kwargs.width,
                  height |-> step.kwargs.height]
            ELSE drafts[k]]
    ELSE drafts

\* What a handler has stored in the registry when it enters the Composer:
\* _create_draft calls get_or_create_draft before it assigns self.drafts[...],
\* and no other handler assigns to self.drafts at all.
RegistryAtComposerEntry(step) == drafts

\* faulty variant: the success envelope of create_draft without its draft_id
_create_draft_returns_no_id(kwargs, draft_folder) ==
    [drafts |-> [k \in DOMAIN drafts \cup {kwargs.draft_id} |->
                    IF k = kwargs.draft_id
                    THEN [folder |-> draft_folder, width |-> kwargs.width,
                          height |-> kwargs.height]
                    ELSE drafts[k]],
     value |-> [success |-> TRUE, draft_folder |-> draft_folder,
                width |-> kwargs.width, height |-> kwargs.height]]

\* faulty variant: the entry stored into a stale, empty copy of the registry
_create_draft_returns_lost_insert(kwargs, draft_folder) ==
    [drafts |-> (kwargs.draft_id :>
                    [folder |-> draft_folder, width |-> kwargs.width,
                     height |-> kwargs.height]),
     value |-> [success |-> TRUE, draft_id |-> kwargs.draft_id,
                draft_folder |-> draft_folder, width |-> kwargs.width,
                height |-> kwargs.height]]

\* The rest of a handler once its Composer call has returned `result`:
\* the registry it leaves and the envelope it returns.
_create_draft_returns(kwargs, draft_folder) ==
    [drafts |-> [k \in DOMAIN drafts \cup {kwargs.draft_id} |->
                    IF k = kwargs.draft_id
                    THEN [folder |-> draft_folder, width |-> kwargs.width,
                          height |-> kwargs.height]
                    ELSE drafts[k]],
     value |-> [success |-> TRUE, draft_id |-> kwargs.draft_id,
                draft_folder |-> draft_folder, width |-> kwargs.width,
                height |-> kwargs.height]]

\* faulty variant: a handler that drops the registry once its call is done
_add_returns_evicting(result) ==
    [drafts |-> EmptyDict, value |-> [success |-> TRUE, result |-> result]]

_add_returns(result) ==
    [drafts |-> drafts, value |-> [success |-> TRUE, result |-> result]]

HandlerReturns(fn, kwargs, result) ==
    IF fn = "get_or_create_draft" THEN _create_draft_returns(kwargs, result)
    ELSE _add_returns(result)

\* ------------------------------------------------------ front ends
\* [types.TextContent(type="text", text=json.dumps(result))]
TextContent(result) == <<[type |-> "text", text |-> result]>>

\* `arguments or {}`
ArgumentsOrEmpty(arguments) ==
    IF arguments = None \/ arguments = Some(EmptyDict) THEN EmptyDict
    ELSE arguments[1]

\* A front end serialises what call_tool returned; a Composer call in
\* progress or an exception passes through it.
Serialise(step) ==
    IF step.kind = "return" THEN Return(TextContent(step.value)) ELSE step

\* stdio: handle_call_tool(name, arguments=None)
handle_call_tool(name, arguments, new_uuid) ==
    IF name \in {"create_draft", "add_video", "add_audio", "add_image", "add_text",
                 "add_subtitle", "add_effect", "add_sticker", "save_draft"}
    THEN Serialise(call_tool(name, ArgumentsOrEmpty(arguments), new_uuid))
    ELSE Return(TextContent([error |-> "Unknown tool: " \o name]))

\* SSE: call_tool(name, arguments: dict)
sse_call_tool(name, arguments, new_uuid) ==
    Serialise(call_tool(name, arguments[1], new_uuid))

FrontEnd(name, arguments, new_uuid) ==
    IF transport = "stdio" THEN handle_call_tool(name, arguments, new_uuid)
    ELSE sse_call_tool(name, arguments, new_uuid)

\* types.Tool(**tool)
Tool(tool) == [name |-> tool.name, required |-> tool.required]

\* [types.Tool(**tool) for tool in server.get_tools()]
handle_list_tools == [i \in DOMAIN get_tools |-> Tool(get_tools[i])]

\* [types.Tool(**t) for t in capcut_svc.get_tools()]
sse_list_tools == [i \in DOMAIN get_tools |-> Tool(get_tools[i])]

ListFrontEnd ==
    IF transport = "stdio" THEN handle_list_tools ELSE sse_list_tools

\* faulty variant: the registry dropped when a stream ends
RegistryAtStreamEnd_scoped(c) == EmptyDict

\* The registry once handle_sse has entered or left connect_sse for client
\* c: neither handle_sse nor handle_messages refers to capcut_svc.
RegistryAtStreamEnd(c) == drafts

\* ------------------------------------------------------------ requests
Clients == 1..NClients

\* stdio serves the one client on stdin; SSE serves every client that has
\* a stream open (POST /messages belongs to the session of a GET /sse)
Connected(c) == c \in streams

UnknownNames == {"foo"}

Optional(S) == {None} \cup {Some(v) : v \in S}

DraftIdArgs == Optional(UUIDs \cup {""})

TimeArgs == Optional(0..MaxTime)

\* a caller overrides both sizes or neither
SizeArgs == {<<None, None>>, <<Some(720), Some(1280)>>}

\* the key of the tool's own payload argument
PayloadKey(name) ==
    CASE name = "add_video" -> "video_url"
      [] name = "add_audio" -> "audio_url"
      [] name = "add_image" -> "image_url"
      [] name = "add_text" -> "text"
      [] name = "add_subtitle" -> "srt_path"
      [] name = "add_effect" -> "effect_type"
      [] name = "add_sticker" -> "sticker_url"

TimedTools == {"add_video", "add_audio", "add_image", "add_text", "add_effect",
               "add_sticker"}

\* payload, start, end and the two sizes of a timed call: a handler reads
\* them independently of each other, so a call varies the times, or the
\* sizes, or leaves out the payload
TimedExtras ==
    {<<Some("x"), s, e, <<None, None>>>> : s \in TimeArgs, e \in TimeArgs}
    \cup {<<Some("x"), None, None, wh>> : wh \in SizeArgs}
    \cup {<<None, None, None, <<None, None>>>>}

\* the text_styles values a caller sends: lists of styles, well-formed or
\* not, and a number in place of the list
StyleArgs ==
    {[kind |-> "list", items |-> <<>>],
     [kind |-> "list", items |-> <<"mapping">>],
     [kind |-> "list", items |-> <<"mapping", "int">>],
     [kind |-> "list", items |-> <<"rejected">>],
     [kind |-> "int", items |-> <<>>]}

\* text, start, end and text_styles of an add_text call that carries
\* text_styles: with its required fields, or without them
TextStyleExtras ==
    {<<Some("x"), Some(0), Some(0), Some(ts)>> : ts \in StyleArgs}
    \cup {<<None, None, None, Some(ts)>> : ts \in StyleArgs}

\* The argument dicts a caller sends to a tool. Only the keys the tool's
\* handler reads are varied.
ArgsFor(name) ==
    IF name = "create_draft"
    THEN {MkDict([width |-> wh[1], height |-> wh[2]]) : wh \in SizeArgs}
    ELSE IF name = "save_draft"
    THEN {MkDict([draft_id |-> d]) : d \in DraftIdArgs}
    ELSE IF name = "add_subtitle"
    THEN {MkDict(("draft_id" :> d) @@ (PayloadKey(name) :> p)
                 @@ ("width" :> wh[1]) @@ ("height" :> wh[2])) :
            d \in DraftIdArgs, p \in Optional({"x"}), wh \in SizeArgs}
    ELSE IF name \in TimedTools
    THEN (IF name = "add_text"
          THEN {MkDict(("draft_id" :> d) @@ ("text" :> x[1])
                       @@ ("start" :> x[2]) @@ ("end" :> x[3])
                       @@ ("text_styles" :> x[4])) :
                  d \in DraftIdArgs, x \in TextStyleExtras}
          ELSE {}) \cup
         {MkDict(("draft_id" :> d) @@ (PayloadKey(name) :> x[1])
                 @@ ("start" :> x[2]) @@ ("end" :> x[3])
                 @@ ("width" :> x[4][1]) @@ ("height" :> x[4][2])) :
            d \in DraftIdArgs, x \in TimedExtras}
    ELSE {EmptyDict, MkDict([draft_id |-> Some("uuid-1")])}

\* stdio may deliver a request without arguments (arguments=None)
Requests ==
    UNION {{[name |-> n, arguments |-> Some(a)] : a \in ArgsFor(n)} :
             n \in ToolNames \cup UnknownNames} \cup
    (IF transport = "stdio"
     THEN {[name |-> n, arguments |-> None] : n \in ToolNames \cup UnknownNames}
     ELSE {})

\* a request as a channel delivers it
ToolCall(req) ==
    [method |-> "tools/call", name |-> req.name, arguments |-> req.arguments]

ListRequest == [method |-> "tools/list", name |-> "", arguments |-> None]

Incoming == {ToolCall(req) : req \in Requests} \cup {ListRequest}

\* the requests a client sends behind another request, or while the server
\* is at work: their answers depend on the order they are handled in
Pipelined ==
    {ToolCall([name |-> "create_draft", arguments |-> Some(EmptyDict)]),
     ToolCall([name |-> "save_draft",
               arguments |-> Some(MkDict([draft_id |-> Some("uuid-1")]))])}

\* ------------------------------------------------------------- actions
\* The SSE handler is `async def` and calls the synchronous call_tool without
\* awaiting: the event-loop thread is held until call_tool returns. The
\* stdio handler calls call_tool the same way. Requests that arrive in the
\* meantime wait in their channel.
\* faulty variant: each call handed to a worker thread
LoopIdle_threaded == TRUE

\* no call holds the thread that runs the handlers
LoopIdle == \A c \in Clients : running[c] = None

\* uuid4 is drawn by _create_draft only
Draw(name) == IF name = "create_draft" /\ CAPCUT_AVAILABLE THEN uuid4 ELSE {""}

\* the requests that wait for a handler
Pending == {<<c, i>> \in Clients \X (1..MaxInFlight) : i <= Len(inbox[c])}

\* the requests the server holds
InFlight ==
    Cardinality(Pending) + Cardinality({c \in Clients : running[c] /= None})
    + (IF out = None THEN 0 ELSE 1)

\* nothing received, in progress or being written
Quiet ==
    /\ LoopIdle
    /\ out = None
    /\ \A c \in Clients : inbox[c] = <<>>

\* The request a channel hands to its handler next. Both front ends leave
\* this to the protocol library (mcp.server.stdio.run, Server.run), whose
\* code is not in the repository: it is taken to hand requests over in the
\* order it received them.
NextRequest(c) == Head(inbox[c])

Init ==
    /\ CAPCUT_AVAILABLE = TRUE
    /\ transport \in {"stdio", "sse"}
    /\ drafts = EmptyDict
    /\ issued = {}
    /\ streams = (IF transport = "stdio" THEN {1} ELSE {})
    /\ composed = {}
    /\ inbox = [c \in Clients |-> <<>>]
    /\ running = [c \in Clients |-> None]
    /\ out = None

\* A request of client c arrives on its channel (a line on stdin, a POST to
\* /messages) and waits for its handler. The arguments are varied on the
\* request that arrives at a quiet server; behind it come Pipelined ones.
Receive(c) ==
    /\ Connected(c)
    /\ InFlight < MaxInFlight
    /\ \E req \in (IF Quiet THEN Incoming ELSE Pipelined) :
         inbox' = [inbox EXCEPT ![c] = Append(@, req)]
    /\ UNCHANGED <<CAPCUT_AVAILABLE, transport, drafts, issued, streams,
                   composed, running, out>>

\* The handler of client c's next request is entered: the call is answered
\* at once, or it enters the Composer.
Call(c) ==
    /\ Connected(c)
    /\ LoopIdle
    /\ inbox[c] /= <<>>
    /\ NextRequest(c).method = "tools/call"
    /\ inbox' = [inbox EXCEPT ![c] = Tail(@)]
    /\ LET req == NextRequest(c) IN \E u \in Draw(req.name) :
         LET step == FrontEnd(req.name, req.arguments, u) IN
         IF step.kind = "invoke"
         THEN /\ running' = [running EXCEPT ![c] =
                    Some([name |-> req.name, arguments |-> req.arguments,
                          fn |-> step.fn, kwargs |-> step.kwargs,
                          before |-> drafts])]
              /\ issued' = issued \cup
                    (IF step.fn = "get_or_create_draft" THEN {u} ELSE {})
              /\ drafts' = RegistryAtComposerEntry(step)
              /\ out' = None
         ELSE /\ out' = Some([method |-> "tools/call", client |-> c,
                              name |-> req.name,
                              arguments |-> req.arguments, outcome |-> step,
                              composer |-> <<>>, before |-> drafts])
              /\ UNCHANGED <<running, issued, drafts>>
    /\ UNCHANGED <<CAPCUT_AVAILABLE, transport, streams, composed>>

\* The Composer call of client c returns: the handler finishes.
ComposerReturns(c) ==
    /\ running[c] /= None
    /\ LET call == running[c][1] IN
       \E result \in ComposerResults(call.fn, call.kwargs) :
         LET done == HandlerReturns(call.fn, call.kwargs, result) IN
         /\ drafts' = done.drafts
         /\ out' = Some([method |-> "tools/call", client |-> c,
                         name |-> call.name,
                         arguments |-> call.arguments,
                         outcome |-> Serialise(Return(done.value)),
                         composer |-> <<[fn |-> call.fn, kwargs |-> call.kwargs,
                                         raised |-> None]>>,
                         before |-> call.before])
    /\ running' = [running EXCEPT ![c] = None]
    /\ composed' = ComposerFolders(running[c][1].fn, running[c][1].kwargs)
    /\ UNCHANGED <<CAPCUT_AVAILABLE, transport, issued, streams, inbox>>

\* The Composer call of client c raises: call_tool's except clause answers.
ComposerRaises(c) ==
    /\ running[c] /= None
    /\ LET call == running[c][1] IN
       \E msg \in ComposerFaults :
         out' = Some([method |-> "tools/call", client |-> c,
                      name |-> call.name,
                      arguments |-> call.arguments,
                      outcome |-> Serialise(Except(Raise(msg))),
                      composer |-> <<[fn |-> call.fn, kwargs |-> call.kwargs,
                                      raised |-> Some(msg)]>>,
                      before |-> call.before])
    /\ running' = [running EXCEPT ![c] = None]
    /\ UNCHANGED <<CAPCUT_AVAILABLE, transport, issued, drafts, streams,
                   composed, inbox>>

\* The response has been written to its client's channel.
Written ==
    /\ out /= None
    /\ out' = None
    /\ UNCHANGED <<CAPCUT_AVAILABLE, transport, drafts, issued, streams,
                   composed, inbox, running>>

\* The list handler is entered for client c's next request: it is answered
\* with the catalog.
ListTools(c) ==
    /\ Connected(c)
    /\ LoopIdle
    /\ inbox[c] /= <<>>
    /\ NextRequest(c).method = "tools/list"
    /\ inbox' = [inbox EXCEPT ![c] = Tail(@)]
    /\ out' = Some([method |-> "tools/list", client |-> c, name |-> "",
                    arguments |-> None, outcome |-> Return(ListFrontEnd),
                    composer |-> <<>>, before |-> drafts])
    /\ UNCHANGED <<CAPCUT_AVAILABLE, transport, drafts, issued, streams,
                   composed, running>>

\* Client c opens an SSE stream (GET /sse): handle_sse enters connect_sse
\* and runs the protocol server on the new stream pair.
OpenStream(c) ==
    /\ transport = "sse"
    /\ c \notin streams
    /\ streams' = streams \cup {c}
    /\ drafts' = RegistryAtStreamEnd(c)
    /\ UNCHANGED <<CAPCUT_AVAILABLE, transport, issued, composed, inbox,
                   running, out>>

\* Client c's SSE stream closes: handle_sse leaves connect_sse, and the
\* requests of the stream that no handler was entered for go with it. A
\* call of c that is inside the Composer holds the thread and runs on.
CloseStream(c) ==
    /\ transport = "sse"
    /\ c \in streams
    /\ streams' = streams \ {c}
    /\ inbox' = [inbox EXCEPT ![c] = <<>>]
    /\ drafts' = RegistryAtStreamEnd(c)
    /\ UNCHANGED <<CAPCUT_AVAILABLE, transport, issued, composed, running, out>>

Next ==
    \/ \E c \in Clients : Receive(c)
    \/ \E c \in Clients : Call(c) \/ ComposerReturns(c) \/ ComposerRaises(c)
    \/ Written
    \/ \E c \in Clients : ListTools(c) \/ OpenStream(c) \/ CloseStream(c)

Spec == Init /\ [][Next]_vars

\* The process whose import of the Composer modules failed: the except
\* branch of the import block sets CAPCUT_AVAILABLE = False and the process
\* serves requests all the same. No call enters the Composer, so there is
\* no Composer return or fault to model.
DegradedInit ==
    /\ CAPCUT_AVAILABLE = FALSE
    /\ transport \in {"stdio", "sse"}
    /\ drafts = EmptyDict
    /\ issued = {}
    /\ streams = (IF transport = "stdio" THEN {1} ELSE {})
    /\ composed = {}
    /\ inbox = [c \in Clients |-> <<>>]
    /\ running = [c \in Clients |-> None]
    /\ out = None

DegradedNext ==
    \/ \E c \in Clients : Receive(c)
    \/ \E c \in Clients : Call(c)
    \/ Written
    \/ \E c \in Clients : ListTools(c) \/ OpenStream(c) \/ CloseStream(c)

DegradedSpec == DegradedInit /\ [][DegradedNext]_vars

\* ======================================================== properties
\* the tool call whose response is being written
Answered == out /= None /\ out[1].method = "tools/call"

\* the catalog listing being written
Listed == out /= None /\ out[1].method = "tools/list"

\* its argument dict as call_tool saw it
ArgsOf(o) == IF o.arguments = None THEN EmptyDict ELSE o.arguments[1]

\* the JSON envelope of its response
EnvelopeOf(o) == o.outcome.value[1].text

IsEnvelope(o) == o.outcome.kind = "return"

\* its draft_id names no entry of the registry as it was when the call came
DraftUnknown(o) ==
    \/ "draft_id" \notin DOMAIN ArgsOf(o)
    \/ ArgsOf(o)["draft_id"] \notin DOMAIN o.before

ComposerRaised(o) == o.composer /= <<>> /\ o.composer[1].raised /= None

MissingRequired(o) == Required(o.name) \ DOMAIN ArgsOf(o)

\* its text_styles is not a list of styles that TextStyleRange accepts
StylesFaulty(o) ==
    /\ o.name = "add_text"
    /\ "text_styles" \in DOMAIN ArgsOf(o)
    /\ LET v == ArgsOf(o)["text_styles"] IN
       \/ v.kind /= "list"
       \/ \E i \in DOMAIN v.items : v.items[i] /= "mapping"

\* the create_draft calls that are inside get_or_create_draft
Creating == {c \in Clients : running[c] /= None /\
                             running[c][1].fn = "get_or_create_draft"}

\* the draft folder a Composer call in progress writes to
Mutating(c) ==
    IF running[c] /= None /\ running[c][1].fn /= "get_or_create_draft"
    THEN {running[c][1].kwargs.draft_folder}
    ELSE {}

\* an error message that names the field f
NamesField(error, f) ==
    \/ error = KeyErrorStr(f)
    \/ error = "Missing required argument: " \o f
    \/ f = "draft_id" /\ error = "Invalid draft_id"

DurationTools == {"add_image", "add_text", "add_effect", "add_sticker"}

\* end - start of a call, with the defaults 3.0 and 0 for an omitted value
EndMinusStart(args) ==
    (IF "end" \in DOMAIN args THEN args["end"] ELSE 3)
    - (IF "start" \in DOMAIN args THEN args["start"] ELSE 0)

\* C1: every tool other than create_draft, called with a draft_id that is not
\* a key of the registry (absent and empty included), answers
\* {success:false, error:"Invalid draft_id"} and invokes no Composer function.
C1_InvalidDraftId ==
    Answered =>
        LET o == out[1] IN
        (o.name \in ToolNames \ {"create_draft"} /\ DraftUnknown(o)) =>
            /\ o.outcome = Return(TextContent(
                   [success |-> FALSE, error |-> "Invalid draft_id"]))
            /\ o.composer = <<>>

C1_Witness ==
    /\ Answered
    /\ out[1].name = "add_video"
    /\ ArgsOf(out[1]) = [draft_id |-> "uuid-2", video_url |-> "x"]
    /\ "uuid-1" \in DOMAIN out[1].before
    /\ "uuid-2" \notin DOMAIN out[1].before
    /\ EnvelopeOf(out[1]).error = "Invalid draft_id"

\* C2: call_tool is total: every call ends in an envelope, never in an
\* exception leaving call_tool, and when a fault occurred (a missing key, a
\* malformed text_styles, a Composer fault) the envelope is a failure
\* envelope.
C2_Total ==
    Answered =>
        LET o == out[1] IN
        /\ IsEnvelope(o)
        /\ (ComposerRaised(o) \/
            (o.name \in ToolNames /\ ~DraftUnknown(o) /\
             (MissingRequired(o) /= {} \/ StylesFaulty(o))))
           => /\ EnvelopeOf(o).success = FALSE
              /\ "error" \in DOMAIN EnvelopeOf(o)

C2_Witness ==
    /\ Answered
    /\ out[1].name = "add_text"
    /\ ~DraftUnknown(out[1])
    /\ MissingRequired(out[1]) = {"start", "end"}
    /\ IsEnvelope(out[1])
    /\ EnvelopeOf(out[1]).success = FALSE
    /\ EnvelopeOf(out[1]).error = "'start'"

\* C3: when the Composer raises, the call answers {success:false,
\* error:<the fault's message>}, the registry is as it was before the call,
\* and the server is free to serve the next call from that same state.
C3_ComposerFault ==
    Answered =>
        LET o == out[1] IN
        ComposerRaised(o) =>
            /\ IsEnvelope(o)
            /\ EnvelopeOf(o).success = FALSE
            /\ EnvelopeOf(o).error = o.composer[1].raised[1]
            /\ drafts = o.before
            /\ LoopIdle

C3_Witness ==
    /\ Answered
    /\ out[1].name = "add_audio"
    /\ ComposerRaised(out[1])
    /\ EnvelopeOf(out[1]).error = "fetch failed"
    /\ drafts /= EmptyDict

\* C4: draft identifiers are unique: a create_draft never returns or stores
\* an identifier that is already a key of the registry, and create_draft
\* calls in progress hold pairwise distinct identifiers.
C4_UniqueIds ==
    /\ Answered =>
         LET o == out[1] IN
         (o.name = "create_draft" /\ IsEnvelope(o) /\ EnvelopeOf(o).success) =>
             /\ EnvelopeOf(o).draft_id \notin DOMAIN o.before
             /\ DOMAIN drafts = DOMAIN o.before \cup {EnvelopeOf(o).draft_id}
             /\ \A k \in DOMAIN o.before : drafts[k] = o.before[k]
    /\ \A c \in Creating : running[c][1].kwargs.draft_id \notin DOMAIN drafts
    /\ \A a, b \in Creating :
         a /= b => running[a][1].kwargs.draft_id /= running[b][1].kwargs.draft_id

C4_Witness ==
    /\ Answered
    /\ out[1].name = "create_draft"
    /\ EnvelopeOf(out[1]).success
    /\ DOMAIN out[1].before /= {}
    /\ Cardinality(DOMAIN drafts) = 2

\* C5: add_* and save_draft calls of different SSE clients on the same draft
\* never have their Composer invocations in progress at the same time.
C5_SameDraftSerialized ==
    \A a, b \in Clients : a /= b => Mutating(a) \cap Mutating(b) = {}

C5_Witness ==
    /\ transport = "sse"
    /\ Connected(2)
    /\ running[1] /= None
    /\ running[1][1].name = "add_video"
    /\ Mutating(1) = {drafts["uuid-1"].folder}
    /\ running[2] = None

\* C6: under SSE, while a Composer call dispatched for one client is in
\* progress, a call that another connected client has sent can start.
C6_NonBlocking ==
    \A a, b \in Clients :
        (transport = "sse" /\ a /= b /\ running[a] /= None /\ Connected(b)
         /\ inbox[b] /= <<>> /\ NextRequest(b).method = "tools/call")
            => ENABLED Call(b)

\* C7: a tool name that is not in the catalog answers {success:false,
\* error:"Unknown tool: <name>"}, whatever the arguments, without touching
\* the registry or the Composer.
C7_UnknownTool ==
    Answered =>
        LET o == out[1] IN
        o.name \notin ToolNames =>
            /\ o.outcome = Return(TextContent(
                   [success |-> FALSE, error |-> "Unknown tool: " \o o.name]))
            /\ o.composer = <<>>
            /\ drafts = o.before

\* C8: create_draft is atomic: when the Composer fails to materialise the
\* folder, the call answers a failure envelope and the registry holds no
\* entry for the identifier allocated for the call (it is unchanged).
C8_AtomicCreate ==
    Answered =>
        LET o == out[1] IN
        (o.name = "create_draft" /\ ComposerRaised(o)) =>
            /\ IsEnvelope(o)
            /\ EnvelopeOf(o).success = FALSE
            /\ o.composer[1].kwargs.draft_id \notin DOMAIN drafts
            /\ drafts = o.before

C8_Witness ==
    /\ Answered
    /\ out[1].name = "create_draft"
    /\ ComposerRaised(out[1])
    /\ out[1].composer[1].kwargs.draft_id = "uuid-2"
    /\ DOMAIN drafts = {"uuid-1"}

\* C9: a call that lacks a field the catalog marks required answers a
\* failure envelope whose error names a missing field, without invoking the
\* Composer; the check comes before draft_id resolution.
C9_MissingFieldFirst ==
    Answered =>
        LET o == out[1] IN
        (o.name \in ToolNames /\ MissingRequired(o) /= {}) =>
            /\ IsEnvelope(o)
            /\ EnvelopeOf(o).success = FALSE
            /\ \E f \in MissingRequired(o) : NamesField(EnvelopeOf(o).error, f)
            /\ o.composer = <<>>

\* C10: add_image, add_effect, add_sticker and add_text hand the Composer
\* duration = end - start exactly, zero and negative included, and never
\* reject or clamp such a call (a call that names a known draft, carries
\* its required fields and, for add_text, a well-formed text_styles).
C10_Duration ==
    /\ \A c \in Clients :
         (running[c] /= None /\ running[c][1].name \in DurationTools) =>
             running[c][1].kwargs.duration =
                 EndMinusStart(ArgsOf(running[c][1]))
    /\ Answered =>
         LET o == out[1] IN
         (o.name \in DurationTools /\ ~DraftUnknown(o) /\ MissingRequired(o) = {}
          /\ ~StylesFaulty(o)) =>
             /\ Len(o.composer) = 1
             /\ o.composer[1].kwargs.duration = EndMinusStart(ArgsOf(o))

C10_Witness ==
    /\ Answered
    /\ out[1].name = "add_image"
    /\ Get(ArgsOf(out[1]), "start") = Some(1)
    /\ Get(ArgsOf(out[1]), "end") = Some(0)
    /\ out[1].composer /= <<>>
    /\ out[1].composer[1].kwargs.duration = -1
    /\ EnvelopeOf(out[1]).success

\* C11: every response, on every dispatch path of both transports, is an
\* envelope with a boolean success field, and every envelope with
\* success = false carries an error field; no response has another shape.
C11_EnvelopeShape ==
    Answered =>
        LET o == out[1] IN
        /\ IsEnvelope(o)
        /\ "success" \in DOMAIN EnvelopeOf(o)
        /\ EnvelopeOf(o).success \in BOOLEAN
        /\ (~EnvelopeOf(o).success => "error" \in DOMAIN EnvelopeOf(o))

\* C12: the two transports are equivalent: a request answered by one front
\* end gets, at the same registry, the same response from the other, an
\* unknown name and absent arguments included.
C12_TransportsAgree ==
    Answered =>
        LET o == out[1] IN
        o.composer = <<>> =>
            /\ o.before = drafts
            /\ handle_call_tool(o.name, o.arguments, "")
                   = sse_call_tool(o.name, Some(ArgsOf(o)), "")

LifecycleStates == {"NEW", "COMPOSING", "SAVED"}

\* the calls that operate on an existing draft
DraftTools == ToolNames \ {"create_draft"}

Succeeded(o) ==
    /\ IsEnvelope(o)
    /\ "success" \in DOMAIN EnvelopeOf(o)
    /\ EnvelopeOf(o).success = TRUE

AssetAddTools == ToolNames \ {"create_draft", "save_draft"}

\* the moves of a lifecycle state the claim allows: none, or forward
Forward ==
    {<<s, s>> : s \in LifecycleStates}
    \cup {<<"NEW", "COMPOSING">>, <<"NEW", "SAVED">>, <<"COMPOSING", "SAVED">>}

\* C13: every draft session carries a lifecycle state that is NEW on
\* creation, becomes COMPOSING on the first successful asset-add and SAVED
\* on a successful save_draft; the state only moves forward in
\* NEW, COMPOSING, SAVED, and a failed call leaves it unchanged.
C13_Lifecycle ==
    /\ \A k \in DOMAIN drafts :
         /\ "state" \in DOMAIN drafts[k]
         /\ drafts[k].state \in LifecycleStates
    /\ Answered =>
         LET o == out[1] IN
         /\ \A k \in DOMAIN o.before :
              <<o.before[k].state, drafts[k].state>> \in Forward
         /\ ~Succeeded(o) =>
              \A k \in DOMAIN o.before : drafts[k].state = o.before[k].state
         /\ (Succeeded(o) /\ o.name = "create_draft") =>
              drafts[EnvelopeOf(o).draft_id].state = "NEW"
         /\ (Succeeded(o) /\ o.name \in AssetAddTools
             /\ o.before[ArgsOf(o)["draft_id"]].state = "NEW") =>
              drafts[ArgsOf(o)["draft_id"]].state = "COMPOSING"
         /\ (Succeeded(o) /\ o.name = "save_draft") =>
              drafts[ArgsOf(o)["draft_id"]].state = "SAVED"

\* the asset-add calls that have reached the Composer, in progress or answered:
\* the request's arguments, the Composer's keyword arguments, the registry as
\* it was when the request came
AssetAddCalls ==
    {[args |-> ArgsOf(running[c][1]), kwargs |-> running[c][1].kwargs,
      before |-> running[c][1].before] :
        c \in {d \in Clients : running[d] /= None /\
                               running[d][1].name \in AssetAddTools}}
    \cup (IF Answered /\ out[1].name \in AssetAddTools /\ out[1].composer /= <<>>
          THEN {[args |-> ArgsOf(out[1]), kwargs |-> out[1].composer[1].kwargs,
                 before |-> out[1].before]}
          ELSE {})

\* C14 (as claimed): an asset-add call that omits width or height hands the
\* Composer the width or height recorded for its draft at create_draft; a
\* caller-supplied width or height is handed on instead.
C14_DraftDefaults ==
    \A r \in AssetAddCalls :
        LET D == r.before[r.args["draft_id"]] IN
        /\ r.kwargs.width = GetOr(r.args, "width", D.width)
        /\ r.kwargs.height = GetOr(r.args, "height", D.height)

\* C14 (amended): an asset-add call that omits width or height hands the
\* Composer the fixed defaults 1080 and 1920, whatever was recorded for its
\* draft at create_draft; a caller-supplied width or height is handed on
\* instead.
C14_FixedDefaults ==
    \A r \in AssetAddCalls :
        /\ r.kwargs.width = GetOr(r.args, "width", 1080)
        /\ r.kwargs.height = GetOr(r.args, "height", 1920)

C14_Witness ==
    /\ Answered
    /\ out[1].name = "add_video"
    /\ ArgsOf(out[1]) = [draft_id |-> "uuid-1", video_url |-> "x"]
    /\ out[1].composer /= <<>>
    /\ out[1].before["uuid-1"].width = 720
    /\ out[1].before["uuid-1"].height = 1280
    /\ out[1].composer[1].kwargs.width = 1080
    /\ out[1].composer[1].kwargs.height = 1920

\* C19 (as claimed): every success envelope of a call that operates on a
\* draft (create_draft, every add_* tool, save_draft) contains the draft_id
\* of the draft it operated on.
C19_DraftIdInSuccess ==
    Answered =>
        LET o == out[1] IN
        (o.name \in ToolNames /\ Succeeded(o)) =>
            /\ "draft_id" \in DOMAIN EnvelopeOf(o)
            /\ EnvelopeOf(o).draft_id =
                   IF o.name = "create_draft"
                   THEN o.composer[1].kwargs.draft_id
                   ELSE ArgsOf(o)["draft_id"]

\* C19 (amended): the success envelope of create_draft contains the draft_id
\* of the draft it created (with draft_folder, width and height); the success
\* envelope of every add_* tool and of save_draft contains success and the
\* Composer's result and nothing else.
C19_DraftIdOnCreate ==
    Answered =>
        LET o == out[1] IN
        (o.name \in ToolNames /\ Succeeded(o)) =>
            IF o.name = "create_draft"
            THEN /\ DOMAIN EnvelopeOf(o) =
                        {"success", "draft_id", "draft_folder", "width", "height"}
                 /\ EnvelopeOf(o).draft_id = o.composer[1].kwargs.draft_id
                 /\ EnvelopeOf(o).draft_id \in DOMAIN drafts
            ELSE /\ DOMAIN EnvelopeOf(o) = {"success", "result"}
                 /\ EnvelopeOf(o).result
                        \in ComposerResults(o.composer[1].fn, o.composer[1].kwargs)

C19_Witness ==
    /\ Answered
    /\ out[1].name = "add_audio"
    /\ Get(ArgsOf(out[1]), "draft_id") = Some("uuid-2")
    /\ Succeeded(out[1])
    /\ "draft_id" \notin DOMAIN EnvelopeOf(out[1])

\* a step keeps every registry entry, and adds a key only as the completion
\* of a successful create_draft: the key is the draft_id that call returns
RegistryStep ==
    /\ \A k \in DOMAIN drafts : k \in DOMAIN drafts' /\ drafts'[k] = drafts[k]
    /\ DOMAIN drafts' /= DOMAIN drafts =>
         /\ out' /= None
         /\ out'[1].name = "create_draft"
         /\ Succeeded(out'[1])
         /\ DOMAIN drafts' = DOMAIN drafts \cup {EnvelopeOf(out'[1]).draft_id}

\* C17: registry entries are created only by create_draft and are permanent:
\* every key stays a key with the same folder, width and height for the rest
\* of the process lifetime, and no other tool adds a key.
C17_Permanent == [][RegistryStep]_vars

C17_Witness ==
    /\ Answered
    /\ out[1].name = "save_draft"
    /\ Succeeded(out[1])
    /\ DOMAIN out[1].before = {"uuid-1", "uuid-2"}
    /\ drafts = out[1].before

\* what a lookup can see: no entry, or an entry with all three fields
CompleteEntries ==
    \A k \in DOMAIN drafts : DOMAIN drafts[k] = {"folder", "width", "height"}

\* the create_draft call of client c completes with success in this step
CreateCompletes(c) ==
    /\ c \in Creating
    /\ running'[c] = None
    /\ Succeeded(out'[1])

\* a completing create_draft inserts its whole entry in one step, next to
\* the entries of every earlier insert
InsertStep ==
    /\ CompleteEntries'
    /\ \A c \in Clients :
         CreateCompletes(c) =>
            LET kw == running[c][1].kwargs IN
            /\ kw.draft_id \notin DOMAIN drafts
            /\ DOMAIN drafts' = DOMAIN drafts \cup {kw.draft_id}
            /\ Cardinality(DOMAIN drafts') = Cardinality(DOMAIN drafts) + 1
            /\ drafts'[kw.draft_id] =
                   [folder |-> EnvelopeOf(out'[1]).draft_folder,
                    width |-> kw.width, height |-> kw.height]
            /\ \A k \in DOMAIN drafts : drafts'[k] = drafts[k]

\* C20: registry operations are atomic under concurrent callers: every
\* successful create_draft adds exactly one entry and none is lost, and a
\* lookup sees either no entry or a complete one, never a partial entry.
C20_AtomicRegistry == [][InsertStep]_vars

C20_Witness ==
    /\ transport = "sse"
    /\ Answered
    /\ out[1].name = "create_draft"
    /\ out[1].client = 2
    /\ Succeeded(out[1])
    /\ Cardinality(DOMAIN out[1].before) = 1
    /\ Cardinality(DOMAIN drafts) = 2
    /\ CompleteEntries

\* the answer given for a name no handler is dispatched for
UnknownAnswer(o) ==
    /\ IsEnvelope(o)
    /\ "error" \in DOMAIN EnvelopeOf(o)
    /\ EnvelopeOf(o).error = "Unknown tool: " \o o.name

\* C18: the catalog is the single source of truth: the names call_tool
\* dispatches to a handler are the names in the catalog, the validation of
\* a call consults the catalog (a call that lacks a field the catalog
\* requires of its tool is refused for that, with an error naming a missing
\* field, and never reaches the Composer), and both transports list exactly
\* that catalog, whatever operations came before.
C18_Catalog ==
    /\ Listed => out[1].outcome = Return([i \in DOMAIN TOOLS |-> Tool(TOOLS[i])])
    /\ Answered =>
         LET o == out[1] IN
         /\ o.name \in ToolNames <=> ~UnknownAnswer(o)
         /\ o.composer /= <<>> =>
                /\ o.name \in ToolNames
                /\ Required(o.name) \subseteq DOMAIN ArgsOf(o)
         /\ (o.name \in ToolNames /\ ~Required(o.name) \subseteq DOMAIN ArgsOf(o)) =>
                /\ IsEnvelope(o)
                /\ EnvelopeOf(o).success = FALSE
                /\ \E f \in Required(o.name) \ DOMAIN ArgsOf(o) :
                      NamesField(EnvelopeOf(o).error, f)
    /\ \A c \in Clients :
         running[c] /= None =>
            /\ running[c][1].name \in ToolNames
            /\ Required(running[c][1].name) \subseteq DOMAIN ArgsOf(running[c][1])

\* the response in out' answers the call that client c has in the Composer
AnswersRunning(c) ==
    /\ out' /= None
    /\ out'[1].client = c
    /\ out'[1].method = "tools/call"
    /\ out'[1].name = running[c][1].name
    /\ out'[1].arguments = running[c][1].arguments

\* the response in out' answers request req of client c
AnswersRequest(c, req) ==
    /\ out' /= None
    /\ out'[1].client = c
    /\ out'[1].method = req.method
    /\ out'[1].name = req.name
    /\ out'[1].arguments = req.arguments

\* One step, seen from the channel of each client. Requests join the
\* channel's queue at the back and leave it at the front, one at a time
\* (or all together when the stream closes). The front request is taken up
\* only while no call is in progress, and it is answered at once or becomes
\* the call in progress. A call in progress ends in exactly one response,
\* which answers it. A response is produced only by a request that
\* finishes, so responses leave in the order the requests were taken up.
ChannelStep ==
    /\ \A c \in Clients :
         /\ \/ inbox'[c] = inbox[c]
            \/ /\ Len(inbox'[c]) = Len(inbox[c]) + 1
               /\ SubSeq(inbox'[c], 1, Len(inbox[c])) = inbox[c]
            \/ inbox[c] /= <<>> /\ inbox'[c] = Tail(inbox[c])
            \/ c \notin streams' /\ inbox'[c] = <<>>
         /\ (c \in streams' /\ inbox[c] /= <<>> /\ inbox'[c] = Tail(inbox[c])) =>
              /\ \A d \in Clients : running[d] = None
              /\ \A d \in Clients \ {c} : inbox'[d] = inbox[d] /\ running'[d] = None
              /\ \/ /\ running'[c] /= None
                    /\ ToolCall(running'[c][1]) = Head(inbox[c])
                    /\ out' = None
                 \/ /\ running'[c] = None
                    /\ AnswersRequest(c, Head(inbox[c]))
         /\ running[c] /= None =>
              \/ /\ running'[c] = running[c]
                 /\ out' = None \/ out' = out
              \/ /\ running'[c] = None
                 /\ AnswersRunning(c)
         /\ (running[c] = None /\ running'[c] /= None) =>
              /\ inbox[c] /= <<>>
              /\ inbox'[c] = Tail(inbox[c])
    /\ (out' /= None /\ out' /= out) =>
         LET c == out'[1].client IN
         \/ running[c] /= None /\ running'[c] = None
         \/ /\ running[c] = None /\ running'[c] = None
            /\ inbox[c] /= <<>> /\ inbox'[c] = Tail(inbox[c])
            /\ out'[1].composer = <<>>

Resolvable ==
    Answered =>
        LET o == out[1] IN
        (o.name \in DraftTools /\ ~DraftUnknown(o)) =>
            /\ IsEnvelope(o)
            /\ EnvelopeOf(o) /= InvalidDraftIdEnvelope
            /\ o.composer /= <<>> =>
                   o.composer[1].kwargs.draft_folder
                       = o.before[ArgsOf(o)["draft_id"]].folder

\* opening or closing a stream leaves the registry as it is
StreamStep ==
    /\ streams' /= streams => drafts' = drafts
    /\ Resolvable'

\* C16: drafts are shared across SSE connections and outlive them: a call
\* arriving on any connection resolves a draft of the registry, and opening
\* or closing a stream changes no registry entry.
C16_SharedDrafts == [][StreamStep]_vars

C16_Witness ==
    /\ transport = "sse"
    /\ Answered
    /\ out[1].name = "create_draft"
    /\ out[1].client = 1
    /\ Succeeded(out[1])
    /\ streams = {2}
    /\ EnvelopeOf(out[1]).draft_id \in DOMAIN drafts

\* the calls naming a draft that have reached the Composer, in progress or
\* answered: tool name, arguments, the Composer's keyword arguments, the
\* registry as it was when the request came
DraftCalls ==
    {[name |-> running[c][1].name, args |-> ArgsOf(running[c][1]),
      kwargs |-> running[c][1].kwargs, before |-> running[c][1].before] :
        c \in {d \in Clients : running[d] /= None /\
                               running[d][1].name \in DraftTools}}
    \cup (IF Answered /\ out[1].name \in DraftTools /\ out[1].composer /= <<>>
          THEN {[name |-> out[1].name, args |-> ArgsOf(out[1]),
                 kwargs |-> out[1].composer[1].kwargs,
                 before |-> out[1].before]}
          ELSE {})

\* C22: a successful create_draft(width=w, height=h) echoes w and h (1080 and
\* 1920 when omitted) and maps its id to the folder the Composer returned
\* together with w and h; every later add_* or save_draft call naming the
\* draft passes draft resolution and invokes the Composer with exactly that
\* folder.
C22_CreateThenUse ==
    /\ Answered =>
         LET o == out[1] IN
         /\ (o.name = "create_draft" /\ Succeeded(o)) =>
               LET e == EnvelopeOf(o) IN
               /\ e.width = GetOr(ArgsOf(o), "width", 1080)
               /\ e.height = GetOr(ArgsOf(o), "height", 1920)
               /\ e.draft_folder \in ComposerResults(o.composer[1].fn,
                                                     o.composer[1].kwargs)
               /\ e.draft_id \in DOMAIN drafts
               /\ drafts[e.draft_id] = [folder |-> e.draft_folder,
                                        width |-> e.width, height |-> e.height]
         /\ (o.name \in DraftTools /\ ~DraftUnknown(o)) =>
               /\ EnvelopeOf(o) /= InvalidDraftIdEnvelope
               /\ (MissingRequired(o) = {} /\ ~StylesFaulty(o)) =>
                      Len(o.composer) = 1
    /\ \A k \in DOMAIN drafts :
         drafts[k].folder \in ComposerResults("get_or_create_draft",
                                              [draft_id |-> k])
    /\ \A r \in DraftCalls :
         r.kwargs.draft_folder = r.before[r.args["draft_id"]].folder

C22_Witness ==
    /\ Answered
    /\ out[1].name = "add_image"
    /\ Succeeded(out[1])
    /\ Get(ArgsOf(out[1]), "draft_id") = Some("uuid-2")
    /\ out[1].before["uuid-2"] =
           [folder |-> "folder-uuid-2", width |-> 720, height |-> 1280]
    /\ out[1].composer[1].kwargs.draft_folder = "folder-uuid-2"

PassThroughTools == {"add_video", "add_audio"}

\* C23: add_video and add_audio hand start and end to the Composer
\* unmodified: start is the caller's value or 0 when omitted, end is the
\* caller's value or None when omitted, and no duration is computed.
C23_PassThrough ==
    \A r \in DraftCalls :
        r.name \in PassThroughTools =>
            /\ r.kwargs.start = GetOr(r.args, "start", 0)
            /\ r.kwargs.end = Get(r.args, "end")
            /\ "duration" \notin DOMAIN r.kwargs

C23_Witness ==
    /\ Answered
    /\ out[1].name = "add_audio"
    /\ Succeeded(out[1])
    /\ Get(ArgsOf(out[1]), "start") = Some(1)
    /\ Get(ArgsOf(out[1]), "end") = None
    /\ out[1].composer[1].kwargs.start = 1
    /\ out[1].composer[1].kwargs.end = None

\* the Composer entry point that belongs to a tool
EntryPoint(name) ==
    CASE name = "create_draft" -> "get_or_create_draft"
      [] name = "add_video" -> "add_video_track"
      [] name = "add_audio" -> "add_audio_track"
      [] name = "add_image" -> "add_image_impl"
      [] name = "add_text" -> "add_text_impl"
      [] name = "add_subtitle" -> "add_subtitle_impl"
      [] name = "add_effect" -> "add_effect_impl"
      [] name = "add_sticker" -> "add_sticker_impl"
      [] name = "save_draft" -> "save_draft_impl"

\* One step of a call: it enters the entry point of its tool; the first
\* return or fault of that Composer call ends it with its response, whose
\* log holds that one invocation; a fault is answered by a failure envelope
\* and leaves the client with no call in the Composer.
NoRetryStep ==
    /\ \A c \in Clients :
         /\ running'[c] /= None =>
               /\ running'[c][1].name \in ToolNames
               /\ running'[c][1].fn = EntryPoint(running'[c][1].name)
         /\ (running[c] /= None /\ running'[c] /= running[c]) =>
               /\ running'[c] = None
               /\ AnswersRunning(c)
               /\ Len(out'[1].composer) = 1
               /\ out'[1].composer[1].fn = running[c][1].fn
               /\ out'[1].composer[1].kwargs = running[c][1].kwargs
    /\ (out' /= None /\ out'[1].method = "tools/call") =>
         /\ Len(out'[1].composer) <= 1
         /\ ComposerRaised(out'[1]) =>
               /\ IsEnvelope(out'[1])
               /\ EnvelopeOf(out'[1]).success = FALSE
               /\ running'[out'[1].client] = None

\* C24: faults are never retried: a tool call invokes at most one Composer
\* entry point, at most once, the one matching the tool name; after a
\* Composer failure the call makes no second invocation.
C24_NoRetry == [][NoRetryStep]_vars

C24_Witness ==
    /\ Answered
    /\ out[1].name = "add_sticker"
    /\ ComposerRaised(out[1])
    /\ Len(out[1].composer) = 1
    /\ out[1].composer[1].fn = "add_sticker_impl"
    /\ running[out[1].client] = None
    /\ EnvelopeOf(out[1]).success = FALSE

\* C25: when the Composer modules failed to load (CAPCUT_AVAILABLE false),
\* every call of call_tool, for every name and every argument set, answers
\* the one generic unavailable-service envelope, invokes no Composer
\* function, and the registry stays empty for the whole process lifetime.
\* (The stdio front end answers a name outside the catalog itself and does
\* not call call_tool for it.)
C25_Unavailable ==
    ~CAPCUT_AVAILABLE =>
        /\ drafts = EmptyDict
        /\ issued = {}
        /\ \A c \in Clients : running[c] = None
        /\ Answered =>
             LET o == out[1] IN
             /\ o.composer = <<>>
             /\ (transport = "sse" \/ o.name \in ToolNames) =>
                    o.outcome = Return(TextContent(UnavailableEnvelope))

C25_Witness ==
    /\ ~CAPCUT_AVAILABLE
    /\ transport = "sse"
    /\ Answered
    /\ out[1].name = "create_draft"
    /\ out[1].client = 2
    /\ EnvelopeOf(out[1]) = UnavailableEnvelope
    /\ drafts = EmptyDict

\* what save_draft hands the Composer for a call on an existing draft
SaveKwargs(args, before) ==
    [draft_folder |-> before[args["draft_id"]].folder,
     draft_id |-> args["draft_id"]]

\* C21: save_draft on an existing draft is accepted both when no asset has
\* been added to it yet (an empty save) and after asset-adds: either way
\* the save Composer is invoked with the draft's folder and id, and the call
\* succeeds whenever the Composer succeeds.
C21_SaveAccepted ==
    /\ \A r \in DraftCalls :
         r.name = "save_draft" => r.kwargs = SaveKwargs(r.args, r.before)
    /\ Answered =>
         LET o == out[1] IN
         (o.name = "save_draft" /\ ~DraftUnknown(o)) =>
            /\ Len(o.composer) = 1
            /\ o.composer[1].fn = "save_draft_impl"
            /\ o.composer[1].kwargs = SaveKwargs(ArgsOf(o), o.before)
            /\ ~ComposerRaised(o) => Succeeded(o)

\* an empty save has succeeded
C21_Witness ==
    /\ Answered
    /\ out[1].name = "save_draft"
    /\ Succeeded(out[1])
    /\ out[1].composer[1].kwargs.draft_id = "uuid-1"
    /\ out[1].composer[1].kwargs.draft_folder \notin composed

\* a save after asset-adds has succeeded
C21_SavedWithAssets ==
    /\ Answered
    /\ out[1].name = "save_draft"
    /\ Succeeded(out[1])
    /\ out[1].composer[1].kwargs.draft_id = "uuid-1"
    /\ out[1].composer[1].kwargs.draft_folder \in composed

====
